---- MODULE Spec2Model ----
(***************************************************************************)
(* A model of rag_app.py: the user_data.json credential store, the        *)
(* Streamlit sessions that log in, register, create and select             *)
(* conversations and run chat turns; and of test.py, the variant behind a  *)
(* site password.  Every action is one rerun of main() for one widget      *)
(* event, from its first line to its last.                                 *)
(*                                                                         *)
(* Text (str) values are tuples of one-character strings, so that          *)
(* str.strip() is computed and not assumed.                                *)
(***************************************************************************)
EXTENDS Integers, Sequences, FiniteSets, TLC

VARIABLES file, logged_in, username, conversations, current_conversation,
          password_verified, last, trace, calls, program

vars == <<file, logged_in, username, conversations, current_conversation,
          password_verified, last, trace, calls, program>>

sessionVars == <<logged_in, username, conversations, current_conversation,
                 password_verified>>

(***************************************************************************)
(* Bounds of the model and the input alphabets.                            *)
(***************************************************************************)
\* chat turns are accepted while the sessions hold fewer messages than this
MaxMessages == 2
\* the number of store calls SpecStore follows
MaxCalls == 4
\* the number of conversations a test.py session creates
MaxConversations == 3
\* the number of create_system_prompt calls SpecPrompt follows
MaxPromptCalls == 2

Sessions == {1, 2}
\* the salts bcrypt.gensalt() draws from
Salts == {1}
UserNames == {<<>>, <<" ">>, <<"a">>, <<"b">>}
Passwords == {<<" ">>, <<"p">>, <<"w">>}
ConvNames == {<<>>, <<" ">>, <<"c">>, <<"d">>}
Queries == {<<" ">>, <<"q">>}
Pages == {"Login", "Register"}
RetrievalOutcomes == {"error", "empty", "chunks"}
ApiOutcomes == {"error", "content", "completion", "other"}
\* what the two remote calls of a chat turn do; the chat API is called only
\* when the retrieval returned chunks
RemoteOutcomes ==
    {<<"error", "none">>, <<"empty", "none">>}
       \cup {<<"chunks", api>> : api \in ApiOutcomes}

\* Python's None, distinct from every text (texts hold single characters)
None == <<"None">>
\* the text of the reply the chat API generates
ReplyText == <<"r">>
\* "No relevant information found."
NoRelevantInfo == <<"n">>

(***************************************************************************)
(* str.strip() and truthiness                                              *)
(***************************************************************************)
Whitespace == {" "}

RECURSIVE lstrip(_)
lstrip(s) ==
    IF s = <<>> THEN <<>>
    ELSE IF Head(s) \in Whitespace THEN lstrip(Tail(s)) ELSE s

RECURSIVE rstrip(_)
rstrip(s) ==
    IF s = <<>> THEN <<>>
    ELSE IF s[Len(s)] \in Whitespace THEN rstrip(SubSeq(s, 1, Len(s) - 1)) ELSE s

strip(s) == rstrip(lstrip(s))

\* bool(x) of a str-or-None value
Truthy(x) == x # None /\ x # <<>>

(***************************************************************************)
(* dict helpers                                                            *)
(***************************************************************************)
EmptyDict == [k \in {} |-> k]

DictPut(d, k, v) == [x \in (DOMAIN d) \cup {k} |-> IF x = k THEN v ELSE d[x]]

(***************************************************************************)
(* Python values of a message's content: a str, or the list of TextBlock   *)
(* objects that Message.content is.                                        *)
(***************************************************************************)
PyStr(t) == [type |-> "str", text |-> t]
TextBlocks(t) == [type |-> "list", text |-> t]

UserMessage(q) == [role |-> "user", content |-> PyStr(q)]
AssistantMessage(v) == [role |-> "assistant", content |-> v]

(***************************************************************************)
(* bcrypt                                                                  *)
(***************************************************************************)
bcrypt_hashpw(password, salt) == [salt |-> salt, digest |-> password]

bcrypt_checkpw(password, hashed) == bcrypt_hashpw(password, hashed.salt) = hashed

(***************************************************************************)
(* json.dump / json.load of the user_data mapping.  The JSON text holds a  *)
(* message's content as a bare string; a content that is not a str is not  *)
(* serializable.                                                           *)
(***************************************************************************)
JsonSerializable(user_data) ==
    \A u \in DOMAIN user_data :
        \A c \in DOMAIN user_data[u].conversations :
            \A i \in 1..Len(user_data[u].conversations[c]) :
                user_data[u].conversations[c][i].content.type = "str"

RECURSIVE EncodeMessages(_)
EncodeMessages(ms) ==
    IF ms = <<>> THEN <<>>
    ELSE <<[role |-> Head(ms).role, content |-> Head(ms).content.text]>>
         \o EncodeMessages(Tail(ms))

RECURSIVE DecodeMessages(_)
DecodeMessages(js) ==
    IF js = <<>> THEN <<>>
    ELSE <<[role |-> Head(js).role, content |-> PyStr(Head(js).content)]>>
         \o DecodeMessages(Tail(js))

json_dump(user_data) ==
    [u \in DOMAIN user_data |->
        [password |-> user_data[u].password,
         conversations |->
            [c \in DOMAIN user_data[u].conversations |->
                EncodeMessages(user_data[u].conversations[c])]]]

json_load(data) ==
    [u \in DOMAIN data |->
        [password |-> data[u].password,
         conversations |->
            [c \in DOMAIN data[u].conversations |->
                DecodeMessages(data[u].conversations[c])]]]

(***************************************************************************)
(* user_data.json: missing, holding malformed text, or holding a JSON      *)
(* object.                                                                 *)
(***************************************************************************)
MissingFile == [kind |-> "missing", data |-> EmptyDict]
MalformedFile == [kind |-> "malformed", data |-> EmptyDict]
JsonFile(data) == [kind |-> "json", data |-> data]

ensure_user_data_file(f) ==
    IF f.kind = "missing" THEN JsonFile(json_dump(EmptyDict)) ELSE f

\* load_user_data returning {} for a missing or malformed file without
\* writing the empty object back
load_user_data_without_reset(f) ==
    IF f.kind = "json"
    THEN [result |-> json_load(f.data), file |-> f, raised |-> FALSE]
    ELSE [result |-> EmptyDict, file |-> f, raised |-> FALSE]

\* the value returned, the file left behind, and whether the call raised
load_user_data(f) ==
    IF f.kind = "json"
    THEN [result |-> json_load(f.data), file |-> f, raised |-> FALSE]
    ELSE [result |-> EmptyDict, file |-> JsonFile(json_dump(EmptyDict)),
          raised |-> FALSE]

\* open(..., "w") truncates; json.dump(indent=4) writes chunk by chunk and
\* raises TypeError at the first value that is not serializable, which
\* leaves an unfinished object in the file.
save_user_data(user_data, f) ==
    IF JsonSerializable(user_data)
    THEN [file |-> JsonFile(json_dump(user_data)), raised |-> FALSE]
    ELSE [file |-> MalformedFile, raised |-> TRUE]

save_conversation(name, convs, f) ==
    LET ld == load_user_data(f) IN
    IF name \in DOMAIN ld.result
    THEN LET sv == save_user_data(
                        [ld.result EXCEPT ![name].conversations = convs], ld.file)
         IN [file |-> sv.file, raised |-> sv.raised, saved |-> TRUE]
    ELSE [file |-> ld.file, raised |-> FALSE, saved |-> FALSE]

(***************************************************************************)
(* The head of every rerun of main(): ensure_user_data_file(), then        *)
(* register_user() (which loads the store) on the Register page.           *)
(***************************************************************************)
RenderPage(f, page) ==
    LET f1 == ensure_user_data_file(f) IN
    IF page = "Register" THEN load_user_data(ensure_user_data_file(f1)).file
    ELSE f1

\* what the last rerun was: the widget event, its session, the text submitted,
\* the message shown, and whether save_user_data was called
Event(op, s, arg, outcome, saved) ==
    [op |-> op, session |-> s, arg |-> arg, outcome |-> outcome, saved |-> saved]

Init ==
    /\ file = MissingFile
    /\ logged_in = [s \in Sessions |-> FALSE]
    /\ username = [s \in Sessions |-> None]
    /\ conversations = [s \in Sessions |-> EmptyDict]
    /\ current_conversation = [s \in Sessions |-> None]
    /\ password_verified = [s \in Sessions |-> FALSE]
    /\ last = Event("start", 0, <<>>, "none", FALSE)
    /\ trace = <<>>
    /\ calls = <<>>
    /\ program = "rag_app.py"

\* visit_page in a main() that starts the session over on the Register page
visit_page_logging_out(s, page) ==
    /\ file' = RenderPage(file, page)
    /\ last' = Event("visit", s, <<>>, page, FALSE)
    /\ trace' = <<>>
    /\ logged_in' = [logged_in EXCEPT ![s] = @ /\ page # "Register"]
    /\ UNCHANGED <<username, conversations, current_conversation,
                   password_verified, calls, program>>

\* a rerun in which no button was pressed (the page was opened or switched)
visit_page(s, page) ==
    /\ file' = RenderPage(file, page)
    /\ last' = Event("visit", s, <<>>, page, FALSE)
    /\ trace' = <<>>
    /\ UNCHANGED <<sessionVars, calls, program>>

\* register_user saving only the new record
register_user_replacing_store(s, name, password, salt) ==
    LET ld == load_user_data(ensure_user_data_file(ensure_user_data_file(file)))
        user_data == DictPut(EmptyDict, name,
                        [password |-> bcrypt_hashpw(password, salt),
                         conversations |-> EmptyDict])
        sv == save_user_data(user_data, ld.file)
    IN
    /\ IF strip(name) = <<>> \/ strip(password) = <<>>
       THEN /\ file' = ld.file
            /\ last' = Event("register", s, name, "EmptyInput", FALSE)
       ELSE IF name \in DOMAIN ld.result
       THEN /\ file' = ld.file
            /\ last' = Event("register", s, name, "AlreadyExists", FALSE)
       ELSE /\ file' = sv.file
            /\ last' = Event("register", s, name,
                             IF sv.raised THEN "RegistrationError" ELSE "Registered",
                             TRUE)
    /\ trace' = <<>>
    /\ UNCHANGED <<sessionVars, calls, program>>

\* register_user with the "Username already exists." check left out
register_user_without_exists_check(s, name, password, salt) ==
    LET ld == load_user_data(ensure_user_data_file(ensure_user_data_file(file)))
        user_data == DictPut(ld.result, name,
                        [password |-> bcrypt_hashpw(password, salt),
                         conversations |-> EmptyDict])
        sv == save_user_data(user_data, ld.file)
    IN
    /\ IF strip(name) = <<>> \/ strip(password) = <<>>
       THEN /\ file' = ld.file
            /\ last' = Event("register", s, name, "EmptyInput", FALSE)
       ELSE /\ file' = sv.file
            /\ last' = Event("register", s, name,
                             IF sv.raised THEN "RegistrationError" ELSE "Registered",
                             TRUE)
    /\ trace' = <<>>
    /\ UNCHANGED <<sessionVars, calls, program>>

\* Register page, the form submitted with (name, password); salt is the
\* salt bcrypt.gensalt() draws
register_user(s, name, password, salt) ==
    LET f1 == ensure_user_data_file(ensure_user_data_file(file))
        ld == load_user_data(f1)
        user_data == DictPut(ld.result, name,
                        [password |-> bcrypt_hashpw(password, salt),
                         conversations |-> EmptyDict])
        sv == save_user_data(user_data, ld.file)
    IN
    /\ IF strip(name) = <<>> \/ strip(password) = <<>>
       THEN /\ file' = ld.file
            /\ last' = Event("register", s, name, "EmptyInput", FALSE)
       ELSE IF name \in DOMAIN ld.result
       THEN /\ file' = ld.file
            /\ last' = Event("register", s, name, "AlreadyExists", FALSE)
       ELSE /\ file' = sv.file
            /\ last' = Event("register", s, name,
                             IF sv.raised THEN "RegistrationError" ELSE "Registered",
                             TRUE)
    /\ trace' = <<>>
    /\ UNCHANGED <<sessionVars, calls, program>>

\* check_login with the bcrypt.checkpw conjunct left out
check_login_without_checkpw(s, name, password) ==
    LET ld == load_user_data(ensure_user_data_file(file)) IN
    /\ ~logged_in[s]
    /\ file' = ld.file
    /\ IF name \in DOMAIN ld.result
       THEN /\ logged_in' = [logged_in EXCEPT ![s] = TRUE]
            /\ username' = [username EXCEPT ![s] = name]
            /\ conversations' =
                 [conversations EXCEPT ![s] = ld.result[name].conversations]
            /\ last' = Event("login", s, name, "LoginSuccessful", FALSE)
       ELSE /\ UNCHANGED <<logged_in, username, conversations>>
            /\ last' = Event("login", s, name, "InvalidCredentials", FALSE)
    /\ trace' = <<>>
    /\ UNCHANGED <<current_conversation, password_verified, calls, program>>

\* Login page, the Login button pressed with (name, password)
check_login(s, name, password) ==
    LET ld == load_user_data(ensure_user_data_file(file)) IN
    /\ ~logged_in[s]
    /\ file' = ld.file
    /\ IF name \in DOMAIN ld.result
          /\ bcrypt_checkpw(password, ld.result[name].password)
       THEN /\ logged_in' = [logged_in EXCEPT ![s] = TRUE]
            /\ username' = [username EXCEPT ![s] = name]
            /\ conversations' =
                 [conversations EXCEPT ![s] = ld.result[name].conversations]
            /\ last' = Event("login", s, name, "LoginSuccessful", FALSE)
       ELSE /\ UNCHANGED <<logged_in, username, conversations>>
            /\ last' = Event("login", s, name, "InvalidCredentials", FALSE)
    /\ trace' = <<>>
    /\ UNCHANGED <<current_conversation, password_verified, calls, program>>

\* a sidebar conversation button pressed, on either page
select_conversation(s, page, convo) ==
    /\ logged_in[s]
    /\ convo \in DOMAIN conversations[s]
    /\ file' = RenderPage(file, page)
    /\ current_conversation' = [current_conversation EXCEPT ![s] = convo]
    /\ last' = Event("select", s, convo, "Selected", FALSE)
    /\ trace' = <<>>
    /\ UNCHANGED <<logged_in, username, conversations, password_verified, calls, program>>

\* create_conversation testing new_convo_name where the code tests
\* new_convo_name.strip()
create_conversation_without_strip(s, page, new_convo_name) ==
    LET f1 == RenderPage(file, page)
        convs == DictPut(conversations[s], new_convo_name, <<>>)
        sc == save_conversation(username[s], convs, f1)
    IN
    /\ logged_in[s]
    /\ IF new_convo_name # <<>>
       THEN /\ conversations' = [conversations EXCEPT ![s] = convs]
            /\ current_conversation' =
                 [current_conversation EXCEPT ![s] = new_convo_name]
            /\ file' = sc.file
            /\ last' = Event("create", s, new_convo_name,
                             IF sc.raised THEN "SaveFailed" ELSE "Created",
                             sc.saved)
       ELSE /\ file' = f1
            /\ last' = Event("create", s, new_convo_name, "EmptyName", FALSE)
            /\ UNCHANGED <<conversations, current_conversation>>
    /\ trace' = <<>>
    /\ UNCHANGED <<logged_in, username, password_verified, calls, program>>

\* the sidebar's Create Conversation button pressed with new_convo_name
create_conversation(s, page, new_convo_name) ==
    LET f1 == RenderPage(file, page)
        convs == DictPut(conversations[s], new_convo_name, <<>>)
        sc == save_conversation(username[s], convs, f1)
    IN
    /\ logged_in[s]
    /\ IF strip(new_convo_name) # <<>>
       THEN /\ conversations' = [conversations EXCEPT ![s] = convs]
            /\ current_conversation' =
                 [current_conversation EXCEPT ![s] = new_convo_name]
            /\ file' = sc.file
            /\ last' = Event("create", s, new_convo_name,
                             IF sc.raised THEN "SaveFailed" ELSE "Created",
                             sc.saved)
       ELSE /\ file' = f1
            /\ last' = Event("create", s, new_convo_name, "EmptyName", FALSE)
            /\ UNCHANGED <<conversations, current_conversation>>
    /\ trace' = <<>>
    /\ UNCHANGED <<logged_in, username, password_verified, calls, program>>

(***************************************************************************)
(* RAGPipeline.  The prompt is a tuple whose fixed parts are the template's *)
(* pieces and whose interpolated part is str(chunk_texts), character by     *)
(* character.                                                               *)
(***************************************************************************)
\* the chunk texts a retrieval returns when it finds any
Chunks == <<<<"k">>>>

\* RAGPipeline.retrieve_chunks for one outcome of the retrieval request
retrieve_chunks(query, retrieval) ==
    [raised |-> retrieval = "error",
     value |-> IF retrieval = "chunks" THEN Chunks ELSE <<>>]

\* repr() of a str
PyRepr(text) == <<"'">> \o text \o <<"'">>

RECURSIVE JoinReprs(_)
JoinReprs(l) ==
    IF l = <<>> THEN <<>>
    ELSE IF Len(l) = 1 THEN PyRepr(l[1])
    ELSE PyRepr(Head(l)) \o <<",", " ">> \o JoinReprs(Tail(l))

\* str() of a list of str, which is what {chunk_texts} interpolates
ListStr(l) == <<"[">> \o JoinReprs(l) \o <<"]">>

DeflectionSentence ==
    "Todavía no tengo ese conocimiento, pero seguiré aprendiendo para poder ser de más ayuda pronto."

\* the template of rag_app.py up to {chunk_texts}, and from it to the sentence
PersonaAndGoal ==
    "Este asistente, Enrique, es el asistente interno de la Gestoría Mays [...] interpretalo y da tu respuesta"
OtherQuestions == ".\n        /\n        Para cualquier otra pregunta responde: \""

\* create_system_prompt with the closing policy left out when there is no
\* chunk to ground an answer on
create_system_prompt_when_grounded(chunk_texts) ==
    IF chunk_texts = <<>> THEN <<PersonaAndGoal>> \o ListStr(chunk_texts)
    ELSE <<PersonaAndGoal>> \o ListStr(chunk_texts)
            \o <<OtherQuestions, DeflectionSentence>>

create_system_prompt(chunk_texts) ==
    <<PersonaAndGoal>> \o ListStr(chunk_texts) \o <<OtherQuestions, DeflectionSentence>>

\* generate_response appending to the list it was passed: the user message,
\* and the assistant's message when the request succeeds
generate_response_appending(system_prompt, query, conversation_history, api) ==
    LET messages == conversation_history \o <<UserMessage(query)>>
        raised == api \notin {"content", "completion"}
        value == IF api = "content" THEN TextBlocks(ReplyText)
                 ELSE IF api = "completion" THEN PyStr(ReplyText)
                 ELSE PyStr(<<>>)
    IN
    [request |-> [system |-> system_prompt, messages |-> messages],
     raised |-> raised,
     value |-> value,
     conversation_history |->
        IF raised THEN messages ELSE Append(messages, AssistantMessage(value))]

\* RAGPipeline.generate_response for one shape of the chat API's answer:
\* the request sent, the value returned (response.content, a list of
\* TextBlock, or response.completion, a str) or an exception, and the list
\* the caller passed as it is after the call
generate_response(system_prompt, query, conversation_history, api) ==
    LET messages == conversation_history \o <<UserMessage(query)>> IN
    [request |-> [system |-> system_prompt, messages |-> messages],
     raised |-> api \notin {"content", "completion"},
     value |-> IF api = "content" THEN TextBlocks(ReplyText)
               ELSE IF api = "completion" THEN PyStr(ReplyText)
               ELSE PyStr(<<>>),
     conversation_history |-> conversation_history]

\* one step of a chat turn
Step(step, arg) == [step |-> step, arg |-> arg]

\* ChatTurn taking the user message back when the turn fails
ChatTurn_with_rollback(current_history, query, retrieval, api) ==
    LET h1 == Append(current_history, UserMessage(query))
        chunks == retrieve_chunks(query, retrieval)
        system_prompt == create_system_prompt(chunks.value)
        gen == generate_response(system_prompt, query, h1, api)
        t1 == <<Step("append", UserMessage(query)), Step("retrieve_chunks", query)>>
        t2 == t1 \o <<Step("create_system_prompt", chunks.value),
                      Step("messages.create", gen.request)>>
        none == AssistantMessage(PyStr(NoRelevantInfo))
    IN
    IF chunks.raised
    THEN [history |-> current_history, outcome |-> "ErrorGenerating", trace |-> t1]
    ELSE IF chunks.value = <<>>
    THEN [history |-> Append(h1, none), outcome |-> "Answered",
          trace |-> Append(t1, Step("append", none))]
    ELSE IF gen.raised
    THEN [history |-> current_history, outcome |-> "ErrorGenerating", trace |-> t2]
    ELSE [history |-> Append(gen.conversation_history, AssistantMessage(gen.value)),
          outcome |-> "Answered",
          trace |-> Append(t2, Step("append", AssistantMessage(gen.value)))]

\* the try block of chat_interface for a non-blank query: the history it
\* leaves, what the turn showed, and its steps in the order they ran
ChatTurn(current_history, query, retrieval, api) ==
    LET h1 == Append(current_history, UserMessage(query))
        chunks == retrieve_chunks(query, retrieval)
        system_prompt == create_system_prompt(chunks.value)
        gen == generate_response(system_prompt, query, h1, api)
        t1 == <<Step("append", UserMessage(query)), Step("retrieve_chunks", query)>>
        t2 == t1 \o <<Step("create_system_prompt", chunks.value),
                      Step("messages.create", gen.request)>>
        none == AssistantMessage(PyStr(NoRelevantInfo))
    IN
    IF chunks.raised
    THEN [history |-> h1, outcome |-> "ErrorGenerating", trace |-> t1]
    ELSE IF chunks.value = <<>>
    THEN [history |-> Append(h1, none), outcome |-> "Answered",
          trace |-> Append(t1, Step("append", none))]
    ELSE IF gen.raised
    THEN [history |-> gen.conversation_history, outcome |-> "ErrorGenerating",
          trace |-> t2]
    ELSE [history |-> Append(gen.conversation_history, AssistantMessage(gen.value)),
          outcome |-> "Answered",
          trace |-> Append(t2, Step("append", AssistantMessage(gen.value)))]

RECURSIVE SumLengths(_, _)
SumLengths(d, keys) ==
    IF keys = {} THEN 0
    ELSE LET k == CHOOSE x \in keys : TRUE
         IN Len(d[k]) + SumLengths(d, keys \ {k})

RECURSIVE TotalMessages(_)
TotalMessages(ss) ==
    IF ss = {} THEN 0
    ELSE LET s == CHOOSE x \in ss : TRUE
         IN SumLengths(conversations[s], DOMAIN conversations[s])
            + TotalMessages(ss \ {s})

\* the chat form submitted with query, on either page
chat_interface(s, page, query, retrieval, api) ==
    LET cur == current_conversation[s]
        turn == ChatTurn(conversations[s][cur], query, retrieval, api)
    IN
    /\ logged_in[s]
    /\ Truthy(cur)
    /\ TotalMessages(Sessions) < MaxMessages
    /\ file' = RenderPage(file, page)
    /\ IF strip(query) # <<>>
       THEN /\ conversations' =
                 [conversations EXCEPT ![s] = DictPut(@, cur, turn.history)]
            /\ last' = Event("chat", s, query, turn.outcome, FALSE)
            /\ trace' = turn.trace
       ELSE /\ last' = Event("chat", s, query, "EmptyMessage", FALSE)
            /\ trace' = <<>>
            /\ UNCHANGED conversations
    /\ UNCHANGED <<logged_in, username, current_conversation, password_verified,
                   calls, program>>

\* the events of the sessions in ss
SessionEvents(ss) ==
    \/ \E s \in ss, page \in Pages : visit_page(s, page)
    \/ \E s \in ss, name \in UserNames, password \in Passwords, salt \in Salts :
          register_user(s, name, password, salt)
    \/ \E s \in ss, name \in UserNames, password \in Passwords :
          check_login(s, name, password)
    \/ \E s \in ss, page \in Pages, convo \in ConvNames :
          select_conversation(s, page, convo)
    \/ \E s \in ss, page \in Pages, name \in ConvNames :
          create_conversation(s, page, name)
    \/ \E s \in ss, page \in Pages, query \in Queries, remote \in RemoteOutcomes :
          chat_interface(s, page, query, remote[1], remote[2])

\* one browser session using the application
Next == SessionEvents({1})

Spec == Init /\ [][Next]_vars

(***************************************************************************)
(* test.py: the same chat behind check_password().  A session holds        *)
(* password_verified, conversations and current_conversation; there is no  *)
(* store file.  admin_mode, which check_password sets, is read nowhere.     *)
(***************************************************************************)
\* st.secrets["APP_PASSWORD"]
APP_PASSWORD == <<"s">>
PasswordInputs == {<<>>, <<"s">>, <<"w">>}

\* f"Conversación {n}"
new_id(n) == <<"Conversación ", ToString(n)>>

\* the template of test.py up to {chunk_texts}, and from it to the sentence
TestPersona ==
    "Este asistente, Enrique, es el asistente interno de la Gestoría Mays [...] relacionadas con los documentos: "
TestOtherQuestions == ".\n/\nPara cualquier otra pregunta responde: \""

test_create_system_prompt(chunk_texts) ==
    <<TestPersona>> \o ListStr(chunk_texts) \o <<TestOtherQuestions, DeflectionSentence>>

\* test.py's generate_response: no try, and the value is
\* response.content[0].text, a str; a response without content raises
test_generate_response(system_prompt, query, conversation_history, api) ==
    LET messages == conversation_history \o <<UserMessage(query)>> IN
    [request |-> [system |-> system_prompt, messages |-> messages],
     raised |-> api # "content",
     value |-> IF api = "content" THEN PyStr(ReplyText) ELSE PyStr(<<>>),
     conversation_history |-> conversation_history]

\* the body of test.py's chat_interface for a non-blank query; nothing
\* catches what retrieve_chunks or generate_response raise
TestChatTurn(current_history, query, retrieval, api) ==
    LET h1 == Append(current_history, UserMessage(query))
        chunks == retrieve_chunks(query, retrieval)
        system_prompt == test_create_system_prompt(chunks.value)
        gen == test_generate_response(system_prompt, query, h1, api)
        t1 == <<Step("append", UserMessage(query)), Step("retrieve_chunks", query)>>
        t2 == t1 \o <<Step("create_system_prompt", chunks.value),
                      Step("messages.create", gen.request)>>
        none == AssistantMessage(PyStr(NoRelevantInfo))
    IN
    IF chunks.raised
    THEN [history |-> h1, outcome |-> "Uncaught", trace |-> t1]
    ELSE IF chunks.value = <<>>
    THEN [history |-> Append(h1, none), outcome |-> "Answered",
          trace |-> Append(t1, Step("append", none))]
    ELSE IF gen.raised
    THEN [history |-> gen.conversation_history, outcome |-> "Uncaught",
          trace |-> t2]
    ELSE [history |-> Append(gen.conversation_history, AssistantMessage(gen.value)),
          outcome |-> "Answered",
          trace |-> Append(t2, Step("append", AssistantMessage(gen.value)))]

\* the value of the sidebar selectbox in a rerun that did not change it: the
\* option it held, the first option when it is new
SelectboxValue(convs, cur) == IF cur \in DOMAIN convs THEN cur ELSE new_id(1)

\* admin_interface: the conversations and the active conversation it leaves,
\* new being whether "Nueva Conversación" was pressed and selected the
\* selectbox's value
admin_interface(convs, cur, new, selected) ==
    LET id == new_id(Cardinality(DOMAIN convs) + 1)
        convs1 == IF new THEN DictPut(convs, id, <<>>) ELSE convs
        cur1 == IF new THEN id ELSE cur
    IN
    [conversations |-> convs1,
     current_conversation |->
        IF DOMAIN convs1 # {} /\ Truthy(selected) THEN selected ELSE cur1]

InitTest ==
    /\ file = MissingFile
    /\ logged_in = [s \in Sessions |-> FALSE]
    /\ username = [s \in Sessions |-> None]
    /\ conversations = [s \in Sessions |-> EmptyDict]
    /\ current_conversation = [s \in Sessions |-> None]
    /\ password_verified = [s \in Sessions |-> FALSE]
    /\ last = Event("start", 0, <<>>, "none", FALSE)
    /\ trace = <<>>
    /\ calls = <<>>
    /\ program = "test.py"

\* the password form's "Enviar" pressed with password_input
check_password(s, password_input) ==
    /\ ~password_verified[s]
    /\ IF password_input = APP_PASSWORD
       THEN /\ password_verified' = [password_verified EXCEPT ![s] = TRUE]
            /\ last' = Event("password", s, password_input, "AccesoConcedido", FALSE)
       ELSE /\ last' = Event("password", s, password_input, "ContraseñaInválida", FALSE)
            /\ UNCHANGED password_verified
    /\ trace' = <<>>
    /\ UNCHANGED <<file, logged_in, username, conversations, current_conversation,
                   calls, program>>

\* a rerun in which the sidebar selectbox was set to selected
test_select_conversation(s, selected) ==
    LET ai == admin_interface(conversations[s], current_conversation[s], FALSE, selected)
    IN
    /\ password_verified[s]
    /\ selected \in DOMAIN conversations[s]
    /\ conversations' = [conversations EXCEPT ![s] = ai.conversations]
    /\ current_conversation' = [current_conversation EXCEPT ![s] = ai.current_conversation]
    /\ last' = Event("select", s, selected, "Selected", FALSE)
    /\ trace' = <<>>
    /\ UNCHANGED <<file, logged_in, username, password_verified, calls, program>>

\* test_new_conversation in a main() that does not call check_password()
test_new_conversation_without_gate(s) ==
    LET id == new_id(Cardinality(DOMAIN conversations[s]) + 1)
        selected == SelectboxValue(DictPut(conversations[s], id, <<>>),
                                   current_conversation[s])
        ai == admin_interface(conversations[s], current_conversation[s], TRUE, selected)
    IN
    /\ Cardinality(DOMAIN conversations[s]) < MaxConversations
    /\ conversations' = [conversations EXCEPT ![s] = ai.conversations]
    /\ current_conversation' = [current_conversation EXCEPT ![s] = ai.current_conversation]
    /\ last' = Event("create", s, id, "Created", FALSE)
    /\ trace' = <<>>
    /\ UNCHANGED <<file, logged_in, username, password_verified, calls, program>>

\* "Nueva Conversación" pressed
test_new_conversation(s) ==
    LET id == new_id(Cardinality(DOMAIN conversations[s]) + 1)
        selected == SelectboxValue(DictPut(conversations[s], id, <<>>),
                                   current_conversation[s])
        ai == admin_interface(conversations[s], current_conversation[s], TRUE, selected)
    IN
    /\ password_verified[s]
    /\ Cardinality(DOMAIN conversations[s]) < MaxConversations
    /\ conversations' = [conversations EXCEPT ![s] = ai.conversations]
    /\ current_conversation' = [current_conversation EXCEPT ![s] = ai.current_conversation]
    /\ last' = Event("create", s, id, "Created", FALSE)
    /\ trace' = <<>>
    /\ UNCHANGED <<file, logged_in, username, password_verified, calls, program>>

\* the chat's "Enviar" pressed with query
test_chat_interface(s, query, retrieval, api) ==
    LET selected == SelectboxValue(conversations[s], current_conversation[s])
        ai == admin_interface(conversations[s], current_conversation[s], FALSE, selected)
        cur == ai.current_conversation
        turn == TestChatTurn(ai.conversations[cur], query, retrieval, api)
    IN
    /\ password_verified[s]
    /\ Truthy(cur)
    /\ TotalMessages(Sessions) < MaxMessages
    /\ current_conversation' = [current_conversation EXCEPT ![s] = cur]
    /\ IF strip(query) # <<>>
       THEN /\ conversations' =
                 [conversations EXCEPT ![s] = DictPut(ai.conversations, cur, turn.history)]
            /\ last' = Event("chat", s, query, turn.outcome, FALSE)
            /\ trace' = turn.trace
       ELSE /\ conversations' = [conversations EXCEPT ![s] = ai.conversations]
            /\ last' = Event("chat", s, query, "NoButtonEffect", FALSE)
            /\ trace' = <<>>
    /\ UNCHANGED <<file, logged_in, username, password_verified, calls, program>>

TestEvents(ss) ==
    \/ \E s \in ss, password_input \in PasswordInputs : check_password(s, password_input)
    \/ \E s \in ss, selected \in {new_id(n) : n \in 1..MaxConversations} :
          test_select_conversation(s, selected)
    \/ \E s \in ss : test_new_conversation(s)
    \/ \E s \in ss, query \in Queries, remote \in RemoteOutcomes :
          test_chat_interface(s, query, remote[1], remote[2])

NextTest == TestEvents({1})

SpecTest == InitTest /\ [][NextTest]_vars

(***************************************************************************)
(* A session of either program.                                            *)
(***************************************************************************)
Programs == {"rag_app.py", "test.py"}

InitApps ==
    /\ file = MissingFile
    /\ logged_in = [s \in Sessions |-> FALSE]
    /\ username = [s \in Sessions |-> None]
    /\ conversations = [s \in Sessions |-> EmptyDict]
    /\ current_conversation = [s \in Sessions |-> None]
    /\ password_verified = [s \in Sessions |-> FALSE]
    /\ last = Event("start", 0, <<>>, "none", FALSE)
    /\ trace = <<>>
    /\ calls = <<>>
    /\ program \in Programs

NextApps ==
    \/ program = "rag_app.py" /\ SessionEvents({1})
    \/ program = "test.py" /\ TestEvents({1})

SpecApps == InitApps /\ [][NextApps]_vars

(***************************************************************************)
(* The store functions on their own: from a file that is missing,          *)
(* malformed or a JSON object, the three ways the application calls them,  *)
(* with every load_user_data and save_user_data call logged in calls.      *)
(***************************************************************************)
SampleConversations ==
    { EmptyDict,
      DictPut(EmptyDict, <<"c">>, <<UserMessage(<<"q">>)>>),
      DictPut(EmptyDict, <<"c">>,
              <<UserMessage(<<"q">>), AssistantMessage(TextBlocks(ReplyText))>>) }

SampleUserData ==
    { EmptyDict,
      DictPut(EmptyDict, <<"a">>,
              [password |-> bcrypt_hashpw(<<"p">>, 1),
               conversations |->
                  DictPut(EmptyDict, <<"c">>, <<UserMessage(<<"q">>)>>)]) }

LoadCall(f, ld) ==
    [op |-> "load", before |-> f.kind, arg |-> EmptyDict, result |-> ld.result,
     raised |-> ld.raised, after |-> ld.file]

SaveCall(f, user_data, sv) ==
    [op |-> "save", before |-> f.kind, arg |-> user_data, result |-> EmptyDict,
     raised |-> sv.raised, after |-> sv.file]

InitStore ==
    /\ file \in {MissingFile, MalformedFile}
                \cup {JsonFile(json_dump(d)) : d \in SampleUserData}
    /\ logged_in = [s \in Sessions |-> FALSE]
    /\ username = [s \in Sessions |-> None]
    /\ conversations = [s \in Sessions |-> EmptyDict]
    /\ current_conversation = [s \in Sessions |-> None]
    /\ password_verified = [s \in Sessions |-> FALSE]
    /\ last = Event("start", 0, <<>>, "none", FALSE)
    /\ trace = <<>>
    /\ calls = <<>>
    /\ program = "rag_app.py"

\* load_user_data() alone, as check_login calls it
store_load ==
    LET ld == load_user_data(file) IN
    /\ Len(calls) < MaxCalls
    /\ file' = ld.file
    /\ calls' = Append(calls, LoadCall(file, ld))
    /\ UNCHANGED <<sessionVars, last, trace, program>>

\* the store calls of register_user for a new name: load, add a record, save
store_register(name, password, salt) ==
    LET ld == load_user_data(file)
        user_data == DictPut(ld.result, name,
                        [password |-> bcrypt_hashpw(password, salt),
                         conversations |-> EmptyDict])
        sv == save_user_data(user_data, ld.file)
    IN
    /\ Len(calls) + 2 <= MaxCalls
    /\ strip(name) # <<>> /\ strip(password) # <<>>
    /\ name \notin DOMAIN ld.result
    /\ file' = sv.file
    /\ calls' = calls \o <<LoadCall(file, ld), SaveCall(ld.file, user_data, sv)>>
    /\ UNCHANGED <<sessionVars, last, trace, program>>

\* the store calls of save_conversation(name, convs)
store_save_conversation(name, convs) ==
    LET ld == load_user_data(file)
        sc == save_conversation(name, convs, file)
        user_data == IF name \in DOMAIN ld.result
                     THEN [ld.result EXCEPT ![name].conversations = convs]
                     ELSE ld.result
    IN
    /\ Len(calls) + 2 <= MaxCalls
    /\ file' = sc.file
    /\ calls' = IF sc.saved
                THEN calls \o <<LoadCall(file, ld), SaveCall(ld.file, user_data, sc)>>
                ELSE Append(calls, LoadCall(file, ld))
    /\ UNCHANGED <<sessionVars, last, trace, program>>

NextStore ==
    \/ store_load
    \/ \E name \in UserNames, password \in Passwords, salt \in Salts :
          store_register(name, password, salt)
    \/ \E name \in UserNames, convs \in SampleConversations :
          store_save_conversation(name, convs)

SpecStore == InitStore /\ [][NextStore]_vars

(***************************************************************************)
(* Two sessions, each running one store operation (register_user or        *)
(* save_conversation) as its two steps on the file, load_user_data and      *)
(* save_user_data, with nothing that keeps the steps of one session         *)
(* together.  calls is the log of the steps.                                *)
(***************************************************************************)
RaceRequest(op, name, password, convs) ==
    [op |-> op, name |-> name, password |-> password, convs |-> convs]

RaceRequests ==
    {RaceRequest("register", name, <<"p">>, EmptyDict) : name \in {<<"a">>, <<"b">>}}
       \cup {RaceRequest("save_conversation", <<"a">>, None, convs) :
                convs \in SampleConversations}

\* data is the mapping loaded, or the mapping saved
RaceCall(s, op, request, data, raised) ==
    [session |-> s, op |-> op, request |-> request, data |-> data, raised |-> raised]

InitRace ==
    /\ file \in {MissingFile} \cup {JsonFile(json_dump(d)) : d \in SampleUserData}
    /\ logged_in = [s \in Sessions |-> FALSE]
    /\ username = [s \in Sessions |-> None]
    /\ conversations = [s \in Sessions |-> EmptyDict]
    /\ current_conversation = [s \in Sessions |-> None]
    /\ password_verified = [s \in Sessions |-> FALSE]
    /\ last = Event("start", 0, <<>>, "none", FALSE)
    /\ trace = <<>>
    /\ calls = <<>>
    /\ program = "rag_app.py"

\* the steps session s has taken
StepsOf(s) == SelectSeq(calls, LAMBDA c : c.session = s)

\* session s starts its operation: main's ensure_user_data_file(), then the
\* load_user_data() of register_user or of save_conversation
race_load(s, request) ==
    LET ld == load_user_data(ensure_user_data_file(file)) IN
    /\ StepsOf(s) = <<>>
    /\ file' = ld.file
    /\ calls' = Append(calls, RaceCall(s, "load", request, ld.result, ld.raised))
    /\ UNCHANGED <<sessionVars, last, trace, program>>

\* race_save writing the new record or conversations over an empty mapping
race_save_over_empty(s) ==
    LET request == StepsOf(s)[1].request
        user_data ==
            IF request.op = "register"
            THEN DictPut(EmptyDict, request.name,
                         [password |-> bcrypt_hashpw(request.password, 1),
                          conversations |-> EmptyDict])
            ELSE DictPut(EmptyDict, request.name,
                         [password |-> bcrypt_hashpw(<<"p">>, 1),
                          conversations |-> request.convs])
        sv == save_user_data(user_data, file)
    IN
    /\ Len(StepsOf(s)) = 1
    /\ file' = sv.file
    /\ calls' = Append(calls, RaceCall(s, "save", request, user_data, sv.raised))
    /\ UNCHANGED <<sessionVars, last, trace, program>>

\* session s finishes its operation from the mapping it loaded:
\* register_user saves it with the new record unless the name is a key of
\* it; save_conversation saves it with the user's conversations replaced
\* when the name is a key of it
race_save(s) ==
    LET loaded == StepsOf(s)[1].data
        request == StepsOf(s)[1].request
        user_data ==
            IF request.op = "register"
            THEN DictPut(loaded, request.name,
                         [password |-> bcrypt_hashpw(request.password, 1),
                          conversations |-> EmptyDict])
            ELSE IF request.name \in DOMAIN loaded
            THEN [loaded EXCEPT ![request.name].conversations = request.convs]
            ELSE loaded
        sv == save_user_data(user_data, file)
    IN
    /\ Len(StepsOf(s)) = 1
    /\ IF (request.op = "register") # (request.name \in DOMAIN loaded)
       THEN /\ file' = sv.file
            /\ calls' = Append(calls, RaceCall(s, "save", request, user_data, sv.raised))
       ELSE /\ file' = file
            /\ calls' = Append(calls, RaceCall(s, "skip", request, loaded,
                                               request.op = "register"))
    /\ UNCHANGED <<sessionVars, last, trace, program>>

NextRace ==
    \/ \E s \in Sessions, request \in RaceRequests : race_load(s, request)
    \/ \E s \in Sessions : race_save(s)

SpecRace == InitRace /\ [][NextRace]_vars

(***************************************************************************)
(* create_system_prompt on its own: calls of the two programs' functions   *)
(* on snippet lists, logged in calls.                                       *)
(***************************************************************************)
SnippetTexts == {<<>>, <<"k">>, <<"m">>}
SnippetLists ==
    {<<>>} \cup {<<x>> : x \in SnippetTexts}
           \cup {<<x, y>> : x \in SnippetTexts, y \in SnippetTexts}

PromptCall(source, chunk_texts, result) ==
    [op |-> source, arg |-> chunk_texts, result |-> result]

InitPrompt ==
    /\ file \in {MissingFile} \cup {JsonFile(json_dump(d)) : d \in SampleUserData}
    /\ logged_in = [s \in Sessions |-> FALSE]
    /\ username = [s \in Sessions |-> None]
    /\ conversations = [s \in Sessions |-> EmptyDict]
    /\ current_conversation = [s \in Sessions |-> None]
    /\ password_verified = [s \in Sessions |-> FALSE]
    /\ last = Event("start", 0, <<>>, "none", FALSE)
    /\ trace = <<>>
    /\ calls = <<>>
    /\ program \in Programs

\* pipeline.create_system_prompt(chunk_texts) in rag_app.py
call_create_system_prompt(chunk_texts) ==
    /\ program = "rag_app.py"
    /\ Len(calls) < MaxPromptCalls
    /\ calls' = Append(calls, PromptCall("rag_app.py", chunk_texts,
                                         create_system_prompt(chunk_texts)))
    /\ UNCHANGED <<file, sessionVars, last, trace, program>>

\* pipeline.create_system_prompt(chunk_texts) in test.py
call_test_create_system_prompt(chunk_texts) ==
    /\ program = "test.py"
    /\ Len(calls) < MaxPromptCalls
    /\ calls' = Append(calls, PromptCall("test.py", chunk_texts,
                                         test_create_system_prompt(chunk_texts)))
    /\ UNCHANGED <<file, sessionVars, last, trace, program>>

NextPrompt ==
    \/ \E chunk_texts \in SnippetLists : call_create_system_prompt(chunk_texts)
    \/ \E chunk_texts \in SnippetLists : call_test_create_system_prompt(chunk_texts)

SpecPrompt == InitPrompt /\ [][NextPrompt]_vars

(***************************************************************************)
(* Two browser sessions of rag_app.py whose reruns take turns, each run to *)
(* its end before the next starts, for one registered user and two         *)
(* conversation names.                                                      *)
(***************************************************************************)
SharedUser == <<"a">>
SharedPasswords == {<<"p">>, <<"w">>}
SharedConvNames == {<<"c">>, <<"d">>}

SharedEvents(ss) ==
    \/ \E s \in ss, page \in Pages : visit_page(s, page)
    \/ \E s \in ss : register_user(s, SharedUser, <<"p">>, 1)
    \/ \E s \in ss, password \in SharedPasswords : check_login(s, SharedUser, password)
    \/ \E s \in ss, page \in Pages, convo \in SharedConvNames :
          select_conversation(s, page, convo)
    \/ \E s \in ss, page \in Pages, name \in SharedConvNames :
          create_conversation(s, page, name)

NextShared == SharedEvents(Sessions)

SpecShared == Init /\ [][NextShared]_vars

(***************************************************************************)
(* Properties                                                              *)
(***************************************************************************)
\* the JSON object the file holds; no record when it holds none
FileStore(f) == IF f.kind = "json" THEN f.data ELSE EmptyDict

\* the store is left alone: the same records, and the same file when it
\* held a JSON object
StoreUntouched ==
    /\ FileStore(file') = FileStore(file)
    /\ file.kind = "json" => file' = file

\* In every step of Next, last' is the event of that step: its widget
\* (op), its session and the text submitted (arg).

\* C1 as stated: a registration attempt for a username already in the store
\* is rejected with "Username already exists." whatever the password, and
\* the user's record (password hash included) is left as it was.
C1_AnyPasswordAlreadyExists ==
    [][(last'.op = "register" /\ last'.arg \in DOMAIN FileStore(file)) =>
       \A password \in Passwords, salt \in Salts :
          LET s == last'.session
              name == last'.arg
          IN
          register_user(s, name, password, salt)
          => /\ last'.outcome = "AlreadyExists"
             /\ name \in DOMAIN FileStore(file')
             /\ FileStore(file')[name] = FileStore(file)[name]]_vars

\* C1 amended: a registration attempt for a username already in the store
\* is rejected, with "Username already exists." when the password is not
\* blank and with the empty-input error when it is blank (that check comes
\* first), and in both cases the user's record is left as it was.
C1_RegisterExistingRejected ==
    [][(last'.op = "register" /\ last'.arg \in DOMAIN FileStore(file)) =>
       \A password \in Passwords, salt \in Salts :
          LET s == last'.session
              name == last'.arg
          IN
          register_user(s, name, password, salt)
          => /\ last'.outcome =
                  IF strip(password) = <<>> THEN "EmptyInput" ELSE "AlreadyExists"
             /\ name \in DOMAIN FileStore(file')
             /\ FileStore(file')[name] = FileStore(file)[name]]_vars

\* a second registration of a stored username was just rejected
C1_Witness ==
    /\ last.op = "register"
    /\ last.outcome = "AlreadyExists"
    /\ last.arg \in DOMAIN FileStore(file)

\* C2: a login attempt authenticates the session exactly when the username
\* is a key of the store and the stored hash was made from the submitted
\* password; otherwise, for a wrong password and for an unknown user alike,
\* it shows the one invalid-credentials error, the session stays
\* unauthenticated and the store is left alone.
C2_LoginIffVerified ==
    [][last'.op = "login" =>
       \A password \in Passwords :
          LET s == last'.session
              name == last'.arg
          IN
          check_login(s, name, password)
          => LET verified ==
                    /\ name \in DOMAIN FileStore(file)
                    /\ FileStore(file)[name].password.digest = password
             IN /\ logged_in'[s] <=> verified
                /\ verified => /\ username'[s] = name
                               /\ last'.outcome = "LoginSuccessful"
                /\ ~verified => /\ last'.outcome = "InvalidCredentials"
                                /\ username'[s] = username[s]
                                /\ conversations'[s] = conversations[s]
                /\ StoreUntouched]_vars

\* a login with a wrong password for a stored user was just refused
C2_Witness ==
    /\ last.op = "login"
    /\ last.outcome = "InvalidCredentials"
    /\ last.arg \in DOMAIN FileStore(file)
    /\ ~logged_in[last.session]

\* the events that append a message to the active conversation
AppendedMessage == last.op = "chat" /\ last.outcome \in {"Answered", "ErrorGenerating"}

\* C3: after the messages of a conversation were appended through chat
\* turns, load_user_data returns that conversation with exactly those
\* messages in their order.
C3_RoundTripAfterChat ==
    AppendedMessage =>
        LET s == last.session
            stored == load_user_data(file).result
        IN /\ username[s] \in DOMAIN stored
           /\ current_conversation[s] \in DOMAIN stored[username[s]].conversations
           /\ stored[username[s]].conversations[current_conversation[s]]
                = conversations[s][current_conversation[s]]

\* C4: every event that appends a message to the active conversation also
\* saves the store before it completes, so that it ends with the user's
\* conversations in the file equal to the session's conversations.
C4_SaveOnEveryAppend ==
    AppendedMessage =>
        /\ last.saved
        /\ file.kind = "json"
        /\ username[last.session] \in DOMAIN file.data
        /\ json_load(file.data)[username[last.session]].conversations
             = conversations[last.session]

\* C5: load_user_data fails open.  On a missing or malformed file it does
\* not raise, returns the empty mapping and leaves the file holding the
\* empty JSON object; a load right after it returns the empty mapping too;
\* and the save_user_data that follows leaves the file holding a JSON object
\* that reads back as the mapping saved.
C5_LoadFailsOpen ==
    \A i \in 1..Len(calls) :
        (calls[i].op = "load" /\ calls[i].before \in {"missing", "malformed"})
        => /\ ~calls[i].raised
           /\ calls[i].result = EmptyDict
           /\ calls[i].after = JsonFile(EmptyDict)
           /\ (i < Len(calls) /\ calls[i + 1].op = "load")
                => /\ ~calls[i + 1].raised
                   /\ calls[i + 1].result = EmptyDict
           /\ \A j \in (i + 1)..Len(calls) :
                 (/\ calls[j].op = "save"
                  /\ \A k \in (i + 1)..(j - 1) : calls[k].op = "load")
                 => /\ ~calls[j].raised
                    /\ calls[j].after.kind = "json"
                    /\ json_load(calls[j].after.data) = calls[j].arg

\* a malformed file was loaded, loaded again, and then saved to
C5_Witness ==
    /\ Len(calls) >= 3
    /\ calls[1].op = "load" /\ calls[1].before = "malformed"
    /\ calls[2].op = "load"
    /\ calls[3].op = "save"
    /\ calls[3].arg # EmptyDict

\* C6: a create-conversation request with an empty or whitespace-only name
\* shows the empty-name error and changes nothing: not the store, not the
\* session's conversations, not the active conversation.
C6_EmptyNameChangesNothing ==
    [][(last'.op = "create" /\ strip(last'.arg) = <<>>) =>
       \A page \in Pages :
          LET s == last'.session
              name == last'.arg
          IN
          create_conversation(s, page, name)
          => /\ last'.outcome = "EmptyName"
             /\ ~last'.saved
             /\ StoreUntouched
             /\ conversations' = conversations
             /\ current_conversation' = current_conversation]_vars

\* a whitespace-only name was just refused while a conversation was active
C6_Witness ==
    /\ last.op = "create"
    /\ last.outcome = "EmptyName"
    /\ last.arg = <<" ">>
    /\ Truthy(current_conversation[last.session])
    /\ conversations[last.session][current_conversation[last.session]] # <<>>

\* C7: a create-conversation request for a name the user already has fails
\* with a duplicate-name error and leaves that conversation's messages as
\* they were, in the session and in the file.
C7_DuplicateNameRejected ==
    [][(last'.op = "create" /\ last'.arg \in DOMAIN conversations[last'.session]) =>
       \A page \in Pages :
          LET s == last'.session
              name == last'.arg
          IN
          create_conversation(s, page, name)
          => /\ last'.outcome = "DuplicateName"
             /\ conversations'[s][name] = conversations[s][name]
             /\ FileStore(file') = FileStore(file)]_vars

IsPrefix(a, b) == Len(a) <= Len(b) /\ SubSeq(b, 1, Len(a)) = a

\* C8: conversations are append-only: in every step, each conversation of a
\* session is still there afterwards and its messages before the step are a
\* prefix of its messages after it.
C8_AppendOnly ==
    [][\A s \in Sessions :
          \A c \in DOMAIN conversations[s] :
             /\ c \in DOMAIN conversations'[s]
             /\ IsPrefix(conversations[s][c], conversations'[s][c])]_vars

\* C9: every message of every conversation, in the sessions and in the file,
\* has the role user or assistant and a content that is a plain string.
C9_MessagesAreStrings ==
    /\ \A s \in Sessions :
          \A c \in DOMAIN conversations[s] :
             \A i \in 1..Len(conversations[s][c]) :
                /\ conversations[s][c][i].role \in {"user", "assistant"}
                /\ conversations[s][c][i].content.type = "str"
    /\ \A u \in DOMAIN FileStore(file) :
          \A c \in DOMAIN FileStore(file)[u].conversations :
             \A i \in 1..Len(FileStore(file)[u].conversations[c]) :
                FileStore(file)[u].conversations[c][i].role \in {"user", "assistant"}

\* C10: once a username has a record in the store, no step changes or
\* removes its stored password hash.
C10_PasswordHashKept ==
    [][\A u \in DOMAIN FileStore(file) :
          /\ u \in DOMAIN FileStore(file')
          /\ FileStore(file')[u].password = FileStore(file)[u].password]_vars

\* whether session s has passed its program's gate
Authenticated(s) ==
    IF program = "rag_app.py" THEN logged_in[s] ELSE password_verified[s]

\* C11: the auth gate precedes every further action.  A rerun of a session
\* that is not authenticated when it starts (logged_in false in rag_app.py,
\* password_verified false in test.py) is a page visit, a registration, a
\* login or a password attempt; it issues no retrieval and no chat-completion
\* request, selects no conversation, and creates no conversation and appends
\* no message: the session's conversations stay as they were, or, when the
\* rerun is a successful login, become the ones stored for that user.
C11_AuthGatePrecedes ==
    [][\A s \in Sessions :
          ~Authenticated(s) =>
             /\ last'.session = s =>
                   /\ last'.op \in {"visit", "register", "login", "password"}
                   /\ trace' = <<>>
             /\ current_conversation'[s] = current_conversation[s]
             /\ \/ conversations'[s] = conversations[s]
                \/ /\ last'.op = "login" /\ logged_in'[s]
                   /\ conversations'[s] =
                        load_user_data(ensure_user_data_file(file))
                           .result[username'[s]].conversations]_vars

\* a wrong site password was just refused, and the session has nothing
C11_Witness ==
    /\ program = "test.py"
    /\ last.op = "password"
    /\ last.outcome = "ContraseñaInválida"
    /\ ~password_verified[last.session]
    /\ conversations[last.session] = EmptyDict
    /\ current_conversation[last.session] = None

\* C12: per session the state moves only forward.  In every step, a session
\* that is logged in stays logged in under the same username, and a session
\* with an active conversation keeps one; and only a logged-in session has
\* an active conversation.  The steps include failed chat turns, visits to
\* the Register page and refused create-conversation requests.
C12_OnlyForward ==
    [][\A s \in Sessions :
          /\ logged_in[s] => /\ logged_in'[s]
                             /\ username'[s] = username[s]
          /\ Truthy(current_conversation[s]) => Truthy(current_conversation'[s])
          /\ Truthy(current_conversation'[s]) => logged_in'[s]]_vars

\* a chat turn of a logged-in user has just failed
C12_Witness ==
    /\ last.op = "chat"
    /\ last.outcome = "ErrorGenerating"
    /\ logged_in[last.session]
    /\ username[last.session] = <<"a">>
    /\ Truthy(current_conversation[last.session])

\* C13: a registration attempt whose username or password is empty or only
\* whitespace shows the empty-input error, saves nothing and leaves the
\* store alone; an attempt with a non-blank username that has no record and
\* a non-blank password succeeds and leaves the file holding the records it
\* held plus one for that username, with the hash of the password and an
\* empty conversation mapping, every other user's record as it was.
C13_RegisterBlankOrNew ==
    [][last'.op = "register" =>
       \A password \in Passwords, salt \in Salts :
          LET s == last'.session
              name == last'.arg
          IN
          register_user(s, name, password, salt)
          => IF strip(name) = <<>> \/ strip(password) = <<>>
             THEN /\ last'.outcome = "EmptyInput"
                  /\ ~last'.saved
                  /\ StoreUntouched
             ELSE name \notin DOMAIN FileStore(file)
                  => /\ last'.outcome = "Registered"
                     /\ file'.kind = "json"
                     /\ DOMAIN file'.data = DOMAIN FileStore(file) \cup {name}
                     /\ file'.data[name].conversations = EmptyDict
                     /\ bcrypt_checkpw(password, file'.data[name].password)
                     /\ \A u \in DOMAIN FileStore(file) :
                           file'.data[u] = FileStore(file)[u]]_vars

\* a second user was just registered while the first has a conversation
C13_Witness ==
    /\ last.op = "register"
    /\ last.outcome = "Registered"
    /\ Cardinality(DOMAIN FileStore(file)) = 2
    /\ \E u \in DOMAIN FileStore(file) : FileStore(file)[u].conversations # EmptyDict

\* the update that the save step c wrote is in the file
UpdateInFile(c) ==
    /\ file.kind = "json"
    /\ c.request.name \in DOMAIN file.data
    /\ file.data[c.request.name] = json_dump(c.data)[c.request.name]

\* the two sessions wrote for different users, without an error, and the
\* first to write has lost its update
LostUpdate ==
    /\ Len(calls) = 4
    /\ \A i \in 1..4 : ~calls[i].raised
    /\ \E i, j \in 1..4 :
          /\ i < j
          /\ calls[i].op = "save" /\ calls[j].op = "save"
          /\ calls[i].session # calls[j].session
          /\ calls[i].request.name # calls[j].request.name
          /\ ~UpdateInFile(calls[i])
          /\ UpdateInFile(calls[j])

\* C14: with the load and save steps of two sessions free to interleave, an
\* update that a session saved without an error is absent from the file
\* only when the other session saved after it, and that later save failed,
\* wrote the same user's record, or wrote a mapping loaded before the lost
\* update was written; C14_Witness is the reachable state of the claim, in
\* which this has happened and neither session saw an error.
C14_LostOnlyToLaterSave ==
    \A i \in 1..Len(calls) :
        (calls[i].op = "save" /\ ~calls[i].raised /\ ~UpdateInFile(calls[i]))
        => \E j \in (i + 1)..Len(calls) :
              /\ calls[j].op = "save"
              /\ calls[j].session # calls[i].session
              /\ \/ calls[j].raised
                 \/ calls[j].request.name = calls[i].request.name
                 \/ \E k \in 1..(i - 1) :
                       calls[k].op = "load" /\ calls[k].session = calls[j].session

\* both sessions have finished, session 1 registered "b" and was told so,
\* session 2 wrote the record of "a", and "b" has no record in the file
C14_Witness ==
    /\ LostUpdate
    /\ \E i \in 1..4 :
          /\ calls[i].session = 1
          /\ calls[i].op = "save"
          /\ calls[i].request = RaceRequest("register", <<"b">>, <<"p">>, EmptyDict)
    /\ <<"b">> \notin DOMAIN FileStore(file)
    /\ <<"a">> \in DOMAIN FileStore(file)

\* C15 as stated: in every chat turn that calls generate_response, the call
\* leaves the list it was passed with the new user message appended and,
\* when it succeeds, the assistant's message appended after it; when it
\* fails, with no assistant message.
C15_GenerateAppendsToHistory ==
    [][(last'.op = "chat" /\ Len(trace') >= 4) =>
       \A page \in Pages, api \in ApiOutcomes :
          LET s == last'.session
              query == last'.arg
              passed == Append(conversations[s][current_conversation[s]],
                               UserMessage(query))
              gen == generate_response(create_system_prompt(Chunks), query, passed, api)
          IN
          chat_interface(s, page, query, "chunks", api)
          => gen.conversation_history =
                Append(passed, UserMessage(query))
                   \o (IF gen.raised THEN <<>> ELSE <<AssistantMessage(gen.value)>>)]_vars

\* C15 amended: generate_response leaves the list it was passed as it was
\* and sends a new list, the passed one followed by the user message; it is
\* chat_interface that appends the user message to the conversation before
\* the call and, when the call succeeds, the value it returned as the
\* assistant's message after it.  When the call fails the conversation ends
\* with the user message and no assistant message is appended.
C15_ChatInterfaceAppends ==
    [][(last'.op = "chat" /\ Len(trace') >= 4) =>
       \A page \in Pages, api \in ApiOutcomes :
          LET s == last'.session
              query == last'.arg
              cur == current_conversation[s]
              passed == Append(conversations[s][cur], UserMessage(query))
              gen == generate_response(create_system_prompt(Chunks), query, passed, api)
          IN
          chat_interface(s, page, query, "chunks", api)
          => /\ gen.conversation_history = passed
             /\ gen.request.messages = Append(passed, UserMessage(query))
             /\ gen.raised <=> last'.outcome = "ErrorGenerating"
             /\ conversations'[s][cur] =
                   passed \o (IF gen.raised THEN <<>>
                              ELSE <<AssistantMessage(gen.value)>>)]_vars

\* a chat turn has called generate_response and appended what it returned
C15_Witness ==
    /\ last.op = "chat"
    /\ last.outcome = "Answered"
    /\ Len(trace) = 5
    /\ trace[4].step = "messages.create"
    /\ LET h == conversations[last.session][current_conversation[last.session]]
       IN /\ Len(h) = 2
          /\ h[1] = UserMessage(last.arg)
          /\ h[2].role = "assistant"
          /\ h[2].content.text = ReplyText

\* a chat turn has just run whose retrieval request or whose chat-completion
\* request failed: its steps end with the request
FailedTurn == last.op = "chat" /\ Len(trace) \in {2, 4}

\* C16: when the retrieval request or the chat-completion request of a chat
\* turn fails, the turn catches the failure and shows it as a message; the
\* session is authenticated as before with the same active conversation, the
\* store is left alone, and the session is where a chat turn is accepted.
C16_FailureCaughtInTurn ==
    [][FailedTurn' =>
       LET s == last'.session IN
       /\ last'.outcome = "ErrorGenerating"
       /\ Authenticated(s)
       /\ logged_in'[s] = logged_in[s]
       /\ password_verified'[s] = password_verified[s]
       /\ username'[s] = username[s]
       /\ current_conversation'[s] = current_conversation[s]
       /\ StoreUntouched
       /\ Truthy(current_conversation'[s])
       /\ current_conversation'[s] \in DOMAIN conversations'[s]]_vars

\* the prompt the running program composes
ComposedPrompt(chunk_texts) ==
    IF program = "rag_app.py" THEN create_system_prompt(chunk_texts)
    ELSE test_create_system_prompt(chunk_texts)

\* C17: every chat turn that appends an assistant reply ran these steps and
\* no others, in this order: append the user message, one retrieval request
\* for the query, compose the system prompt from the retrieved snippets, one
\* chat-completion request with that prompt, append as the reply the text
\* the request returned; whatever the retrieval returned, the empty list
\* included.
C17_TurnOrder ==
    (last.op = "chat" /\ last.outcome = "Answered") =>
        /\ Len(trace) = 5
        /\ trace[1] = Step("append", UserMessage(last.arg))
        /\ trace[2] = Step("retrieve_chunks", last.arg)
        /\ trace[3].step = "create_system_prompt"
        /\ trace[4].step = "messages.create"
        /\ trace[4].arg.system = ComposedPrompt(trace[3].arg)
        /\ trace[5] = Step("append", AssistantMessage(PyStr(ReplyText)))

\* C18: create_system_prompt is a pure function of its snippet list: a call
\* writes no state and returns what every earlier call on the same list
\* returned; and for the empty snippet list the prompt contains the
\* deflection sentence, whole, as one of its pieces.
C18_PromptPureWithDeflection ==
    [][calls' # calls =>
       LET c == calls'[Len(calls')] IN
       /\ UNCHANGED <<file, sessionVars, last, trace>>
       /\ \A i \in 1..Len(calls) :
             calls[i].arg = c.arg => calls[i].result = c.result
       /\ c.arg = <<>> =>
             \E i \in 1..Len(c.result) : c.result[i] = DeflectionSentence]_vars

\* rag_app.py's create_system_prompt was called twice on the empty list
C18_Witness ==
    /\ program = "rag_app.py"
    /\ Len(calls) = 2
    /\ calls[1].arg = <<>>
    /\ calls[2] = calls[1]
    /\ calls[2].result[Len(calls[2].result)] = DeflectionSentence

\* C19: role alternation is not enforced and a failed turn is not rolled
\* back.  Every chat turn with a non-blank query appends its user message to
\* the active conversation, whatever the conversation's last message is; a
\* turn whose retrieval or generation fails leaves the conversation with
\* that user message as its last and nothing else changed.  C19_Witness is
\* the conversation with two consecutive user messages.
C19_NoRollbackNoAlternation ==
    [][(last'.op = "chat" /\ strip(last'.arg) # <<>>) =>
       LET s == last'.session
           cur == current_conversation[s]
           now == conversations'[s][cur]
           appended == Append(conversations[s][cur], UserMessage(last'.arg))
       IN
       /\ IsPrefix(appended, now)
       /\ FailedTurn' <=> last'.outcome = "ErrorGenerating"
       /\ FailedTurn' => now = appended]_vars

\* a turn was accepted after a failed turn: two user messages in a row
C19_Witness ==
    /\ last.op = "chat"
    /\ LET h == conversations[last.session][current_conversation[last.session]]
       IN /\ Len(h) >= 2
          /\ h[Len(h) - 1].role = "user"
          /\ h[Len(h)].role = "user"

\* C20: in every chat turn that calls the chat-completion API, the message
\* list sent is the conversation as it was before the turn followed by the
\* new user message, once.
C20_RequestHasQueryOnce ==
    [][(last'.op = "chat" /\ Len(trace') >= 4) =>
       LET s == last'.session
           before == conversations[s][current_conversation'[s]]
       IN
       /\ trace'[4].step = "messages.create"
       /\ trace'[4].arg.messages = Append(before, UserMessage(last'.arg))]_vars

\* the conversations the file holds for user u
StoredConversations(f, u) ==
    IF u \in DOMAIN FileStore(f) THEN DOMAIN FileStore(f)[u].conversations ELSE {}

\* C21: with every rerun run to completion before the next starts, sessions
\* logged in as the same user do not lose each other's conversations: a
\* create-conversation request that reports success leaves the file holding
\* every conversation it held for that user, and the new one.
C21_SessionsKeepEachOthers ==
    [][(last'.op = "create" /\ last'.outcome = "Created") =>
       LET u == username[last'.session] IN
       StoredConversations(file, u) \cup {last'.arg}
          \subseteq StoredConversations(file', u)]_vars

\* C22: whenever a logged-in user's create-conversation request reports
\* success, save_conversation has written the session's conversations: the
\* file holds a JSON object with a record for the user, and that record has
\* the conversation just created.
C22_CreatedIsStored ==
    (last.op = "create" /\ last.outcome = "Created") =>
        /\ last.saved
        /\ file.kind = "json"
        /\ username[last.session] \in DOMAIN file.data
        /\ last.arg \in DOMAIN file.data[username[last.session]].conversations
====
